---- MODULE Spec2Model ----
(***************************************************************************)
(* Model of admin/ml-image-updates/js/app.js: a one-shot job that lists a  *)
(* bucket, sends the first image to a remote object-detection service and  *)
(* reports, per configured label, whether the label was detected.          *)
(*                                                                         *)
(* JavaScript strings are sequences of one-character strings.  Case        *)
(* mapping is modelled over ASCII letters; toLocaleLowerCase is taken in a *)
(* host locale without special casing rules (any non-Turkic locale).       *)
(* JavaScript jobs run to completion: one action is one job of the event   *)
(* loop (a callback of the host, or one promise reaction).                 *)
(***************************************************************************)
EXTENDS Integers, Sequences, FiniteSets, TLC

VARIABLES ALL_OBJECT_LABELS, pc, files, log, calls, jobs, input, output

vars == <<ALL_OBJECT_LABELS, pc, files, log, calls, jobs, input, output>>

(***************************************************************************)
(* Bounds of the model.                                                    *)
(***************************************************************************)
MaxLabelLen == 2    \* length of a label in the inputs of findObject
MaxBoxes == 2       \* boxes of a VisionResponse handed to findObject
MaxLabelChars == 3  \* characters in all the labels of such a VisionResponse
MaxKeys == 2        \* members of a JSON object handed to createVisionResponse
MaxRecords == 2     \* records in one payload handed to createVisionResponse
MaxEnvLen == 3      \* length of the ALL_OBJECT_LABELS environment string
MaxFiles == 2       \* objects in the bucket listing
MaxBodyKeys == 1    \* members of a JSON object answered by the endpoint
MaxBodyRecords == 1 \* records in one payload answered by the endpoint
MaxURILen == 6      \* length of a URI handed to recognizeObjects directly

(***************************************************************************)
(* Strings.                                                                *)
(***************************************************************************)
LabelChars == {"a", "A", "b"}
EnvChars == {"a", " "}
URIChars == {"g", "s", ":", "/"}
FileNames == {<<"f">>, <<"A">>}
CLOUD_BUCKET == <<"b">>

SeqsUpTo(S, n) == UNION {[1..k -> S] : k \in 0..n}

lowerChar(c) ==
  CASE c = "A" -> "a"
    [] c = "B" -> "b"
    [] OTHER -> c

\* String.prototype.toLowerCase
toLowerCase(s) == [k \in 1..Len(s) |-> lowerChar(s[k])]

\* String.prototype.toLocaleLowerCase, host locale without special casing
toLocaleLowerCase(s) == [k \in 1..Len(s) |-> lowerChar(s[k])]

RECURSIVE indexOfFrom(_, _, _)
indexOfFrom(s, searchString, k) ==
  IF k + Len(searchString) > Len(s) THEN -1
  ELSE IF SubSeq(s, k + 1, k + Len(searchString)) = searchString THEN k
  ELSE indexOfFrom(s, searchString, k + 1)

\* String.prototype.indexOf: 0-based position of the first occurrence, or -1
indexOf(s, searchString) == indexOfFrom(s, searchString, 0)

\* String.prototype.startsWith
startsWith(s, prefix) ==
  /\ Len(s) >= Len(prefix)
  /\ SubSeq(s, 1, Len(prefix)) = prefix

RECURSIVE splitFrom(_, _, _, _)
splitFrom(s, sep, k, cur) ==
  IF k > Len(s) THEN <<cur>>
  ELSE IF s[k] = sep THEN <<cur>> \o splitFrom(s, sep, k + 1, <<>>)
  ELSE splitFrom(s, sep, k + 1, Append(cur, s[k]))

\* String.prototype.split with a one-character separator
split(s, sep) == splitFrom(s, sep, 1, <<>>)

encodeChar(c) ==
  CASE c = ":" -> <<"%", "3", "A">>
    [] c = "/" -> <<"%", "2", "F">>
    [] OTHER -> <<c>>

RECURSIVE encodeURIComponent(_)
encodeURIComponent(s) ==
  IF s = <<>> THEN <<>> ELSE encodeChar(Head(s)) \o encodeURIComponent(Tail(s))

(***************************************************************************)
(* BoundingBox and VisionResponse (cloud/controller/js).                   *)
(***************************************************************************)
Undefined == "undefined"

BoundingBox(label, x, y, w, h, score) ==
  [label |-> label, x |-> x, y |-> y, w |-> w, h |-> h, score |-> score]

VisionResponse == [bBoxes |-> <<>>]

addBox(response, bBox) == [response EXCEPT !.bBoxes = Append(@, bBox)]

(***************************************************************************)
(* findObject                                                              *)
(***************************************************************************)
RECURSIVE findObjectMutFrom(_, _, _)
findObjectMutFrom(objectType, visionResponse, i) ==
  IF i <= 1 THEN FALSE
  ELSE IF indexOf(toLocaleLowerCase(visionResponse.bBoxes[i].label),
                  toLowerCase(objectType)) >= 0
       THEN TRUE
       ELSE findObjectMutFrom(objectType, visionResponse, i - 1)

\* mutant: the scan stops before the box at index 0
findObjectSkipFirst(objectType, visionResponse) ==
  findObjectMutFrom(objectType, visionResponse, Len(visionResponse.bBoxes))

\* the loop `for (let i = length; i--;)`: i is the number of boxes not yet
\* looked at, the box looked at is bBoxes[i - 1] (0-based), here bBoxes[i]
RECURSIVE findObjectFrom(_, _, _)
findObjectFrom(objectType, visionResponse, i) ==
  IF i = 0 THEN FALSE
  ELSE IF indexOf(toLocaleLowerCase(visionResponse.bBoxes[i].label),
                  toLowerCase(objectType)) >= 0
       THEN TRUE
       ELSE findObjectFrom(objectType, visionResponse, i - 1)

findObject(objectType, visionResponse) ==
  findObjectFrom(objectType, visionResponse, Len(visionResponse.bBoxes))

(***************************************************************************)
(* JSON texts and JSON.parse.  A text is its syntax tree, or "invalid"     *)
(* when it is not JSON.  The members of an object literal may repeat a     *)
(* key; JSON.parse keeps one property per key, at the position of the      *)
(* key's first member and with the value of its last.                      *)
(***************************************************************************)
Fields == <<"x", "y", "w", "h", "score">>
FieldSet == {Fields[k] : k \in 1..Len(Fields)}

FieldValue(f) ==
  CASE f = "x" -> "1"
    [] f = "y" -> "2"
    [] f = "w" -> "3"
    [] f = "h" -> "4"
    [] OTHER -> "0.9"

JNull == [t |-> "null"]
JNum == [t |-> "num"]
JInvalid == [t |-> "invalid"]
JStr(s) == [t |-> "str", v |-> s]
JArr(items) == [t |-> "arr", items |-> items]
JRec(present) == [t |-> "rec", fields |-> [f \in present |-> FieldValue(f)]]
JObj(members) == [t |-> "obj", members |-> members]

RECURSIVE putProperty(_, _, _)
putProperty(props, k, v) ==
  IF props = <<>> THEN <<[k |-> k, v |-> v]>>
  ELSE IF Head(props).k = k THEN <<[k |-> k, v |-> v]>> \o Tail(props)
  ELSE <<Head(props)>> \o putProperty(Tail(props), k, v)

RECURSIVE parseMembers(_, _)
parseMembers(members, props) ==
  IF members = <<>> THEN props
  ELSE parseMembers(Tail(members),
                    putProperty(props, Head(members).k, Head(members).v))

Return(v) == [ok |-> TRUE, value |-> v]
Throw(e) == [ok |-> FALSE, error |-> e]

JSONparse(text) ==
  IF text.t = "invalid" THEN Throw("SyntaxError")
  ELSE IF text.t = "obj"
       THEN Return([t |-> "obj", props |-> parseMembers(text.members, <<>>)])
       ELSE Return(text)

(***************************************************************************)
(* createVisionResponse                                                    *)
(***************************************************************************)
Digits == <<"0", "1", "2", "3", "4", "5", "6", "7", "8", "9">>

\* the enumerable own properties `for (let key in objResponse)` visits, in
\* order: the properties of an object, the indices of a string or an array,
\* nothing for null and numbers.  (Labels are never canonical array indices
\* here, so the property order of an object is its insertion order.)
ownProperties(objResponse) ==
  CASE objResponse.t = "obj" -> objResponse.props
    [] objResponse.t = "str" ->
         [k \in 1..Len(objResponse.v) |->
            [k |-> <<Digits[k]>>, v |-> JStr(<<objResponse.v[k]>>)]]
    [] objResponse.t = "arr" ->
         [k \in 1..Len(objResponse.items) |->
            [k |-> <<Digits[k]>>, v |-> objResponse.items[k]]]
    [] OTHER -> <<>>

\* objResponse[key].length; -1 stands for undefined (`i < undefined` is false)
lengthOf(v) ==
  CASE v.t = "arr" -> Len(v.items)
    [] v.t = "str" -> Len(v.v)
    [] OTHER -> -1

\* objResponse[key][i], i 0-based
elementAt(v, i) ==
  IF v.t = "arr" THEN v.items[i + 1] ELSE JStr(<<v.v[i + 1]>>)

\* objResponse[key][i][f] of a value that is not null
fieldOf(item, f) ==
  IF item.t = "rec" /\ f \in DOMAIN item.fields THEN item.fields[f]
  ELSE Undefined

hasAllFields(item) == item.t = "rec" /\ DOMAIN item.fields = FieldSet

RECURSIVE recordsLoop(_, _, _, _, _)
recordsLoop(key, v, i, response, skipIncomplete) ==
  IF ~(i < lengthOf(v)) THEN Return(response)
  ELSE LET item == elementAt(v, i) IN
       IF item.t = "null" THEN Throw("TypeError")
       ELSE IF skipIncomplete /\ ~hasAllFields(item)
            THEN recordsLoop(key, v, i + 1, response, skipIncomplete)
       ELSE recordsLoop(key, v, i + 1,
              addBox(response,
                     BoundingBox(key, fieldOf(item, "x"), fieldOf(item, "y"),
                                 fieldOf(item, "w"), fieldOf(item, "h"),
                                 fieldOf(item, "score"))),
              skipIncomplete)

RECURSIVE keysLoop(_, _, _, _)
keysLoop(props, response, first, skipIncomplete) ==
  IF props = <<>> THEN Return(response)
  ELSE LET key == Head(props).k
           v == Head(props).v
       IN IF v.t = "null" THEN Throw("TypeError")
          ELSE LET r == recordsLoop(key, v, first, response, skipIncomplete) IN
               IF ~r.ok THEN r
               ELSE keysLoop(Tail(props), r.value, first, skipIncomplete)

createVisionResponseWith(jsonAPIResponse, first, skipIncomplete) ==
  LET objResponse == JSONparse(jsonAPIResponse) IN
  IF ~objResponse.ok THEN objResponse
  ELSE keysLoop(ownProperties(objResponse.value), VisionResponse, first,
                skipIncomplete)

\* mutant: the inner loop starts at i = 1
createVisionResponseFromOne(jsonAPIResponse) ==
  createVisionResponseWith(jsonAPIResponse, 1, FALSE)

\* mutant: a record that lacks a field is skipped
createVisionResponseSkipping(jsonAPIResponse) ==
  createVisionResponseWith(jsonAPIResponse, 0, TRUE)

createVisionResponse(jsonAPIResponse) ==
  createVisionResponseWith(jsonAPIResponse, 0, FALSE)

(***************************************************************************)
(* Inputs of the pure functions.                                           *)
(***************************************************************************)
Labels == SeqsUpTo(LabelChars, MaxLabelLen)

SampleBox(label) == BoundingBox(label, "1", "2", "3", "4", "0.9")

\* the lists of n labels holding at most budget characters in all
RECURSIVE LabelsWithin(_, _)
LabelsWithin(n, budget) ==
  IF n = 0 THEN {<<>>}
  ELSE UNION {{<<l>> \o rest : l \in [1..len -> LabelChars],
                               rest \in LabelsWithin(n - 1, budget - len)} :
              len \in 0..(IF budget < MaxLabelLen THEN budget ELSE MaxLabelLen)}

MatchInputs(maxBoxes) ==
  {[fn |-> "findObject", objectType |-> t,
    visionResponse |-> [bBoxes |-> [k \in 1..Len(ls) |-> SampleBox(ls[k])]]] :
     t \in Labels,
     ls \in UNION {LabelsWithin(n, MaxLabelChars) : n \in 0..maxBoxes}}

PayloadKeys == {<<"a">>, <<"A", "b">>}

\* records: complete, lacking one field, lacking two
MissingSets == {{}, {"x"}, {"score"}, {"w", "h"}}
Records == {JRec(FieldSet \ miss) : miss \in MissingSets}

Items == {JNull} \cup Records
HttpItems == {JNull, JRec(FieldSet), JRec(FieldSet \ {"score"})}

\* the values of a member that hold size records
ValuesOfSize(items, size) ==
  {JArr(s) : s \in [1..size -> items]} \cup (IF size = 0 THEN {JNull} ELSE {})

\* the member lists of n members holding at most budget records in all
RECURSIVE MembersWithin(_, _, _, _)
MembersWithin(keys, items, n, budget) ==
  IF n = 0 THEN {<<>>}
  ELSE UNION {{<<[k |-> k, v |-> v]>> \o rest :
                 k \in keys, v \in ValuesOfSize(items, size),
                 rest \in MembersWithin(keys, items, n - 1, budget - size)} :
              size \in 0..budget}

Texts(keys, items, n, budget) ==
  {JInvalid, JNull, JNum, JStr(<<"a", "b">>)}
    \cup {JObj(m) :
            m \in UNION {MembersWithin(keys, items, k, budget) : k \in 0..n}}

ParseInputs(maxKeys) ==
  {[fn |-> "createVisionResponse", jsonAPIResponse |-> text] :
     text \in Texts(PayloadKeys, Items, maxKeys, MaxRecords)}

Idle ==
  /\ ALL_OBJECT_LABELS = <<>>
  /\ pc = "unit"
  /\ files = <<>>
  /\ log = <<>>
  /\ calls = <<>>
  /\ jobs = <<>>

InitMatch ==
  /\ Idle
  /\ input \in MatchInputs(MaxBoxes)
  /\ output = [done |-> FALSE]

ApplyFindObject ==
  /\ input.fn = "findObject"
  /\ ~output.done
  /\ output' = [done |-> TRUE,
                found |-> findObject(input.objectType, input.visionResponse)]
  /\ UNCHANGED <<ALL_OBJECT_LABELS, pc, files, log, calls, jobs, input>>

NextMatch == ApplyFindObject

SpecMatch == InitMatch /\ [][NextMatch]_vars

InitParse ==
  /\ Idle
  /\ input \in ParseInputs(MaxKeys)
  /\ output = [done |-> FALSE]

ApplyCreateVisionResponse ==
  /\ input.fn = "createVisionResponse"
  /\ ~output.done
  /\ output' = [done |-> TRUE,
                result |-> createVisionResponse(input.jsonAPIResponse)]
  /\ UNCHANGED <<ALL_OBJECT_LABELS, pc, files, log, calls, jobs, input>>

NextParse == ApplyCreateVisionResponse

SpecParse == InitParse /\ [][NextParse]_vars

(***************************************************************************)
(* Properties of findObject (SpecMatch).                                   *)
(***************************************************************************)
SameLetter(c, d) == c = d \/ {c, d} = {"a", "A"} \/ {c, d} = {"b", "B"}

\* sub occurs in s when the case of letters is ignored
ContainsIgnoringCase(s, sub) ==
  \E k \in 0..(Len(s) - Len(sub)) :
     \A j \in 1..Len(sub) : SameLetter(s[k + j], sub[j])

Permuted(boxes, p) == [k \in 1..Len(boxes) |-> boxes[p[k]]]

\* C2: findObject returns true iff some box's label contains the target label,
\* case ignored; it returns false for a response with no boxes; and the result
\* is the same for every order of the boxes.
C2_FindObjectIsSubstringMatch ==
  (input.fn = "findObject" /\ output.done) =>
     LET boxes == input.visionResponse.bBoxes
         t == input.objectType
     IN /\ output.found =
             (\E b \in 1..Len(boxes) : ContainsIgnoringCase(boxes[b].label, t))
        /\ (boxes = <<>> => ~output.found)
        /\ \A p \in Permutations(1..Len(boxes)) :
              findObject(t, [bBoxes |-> Permuted(boxes, p)]) = output.found

\* the only matching box is the last one scanned, and it matches only because
\* case is ignored
C2_Witness ==
  /\ input.fn = "findObject"
  /\ output.done
  /\ output.found
  /\ Len(input.visionResponse.bBoxes) = 2
  /\ input.objectType # <<>>
  /\ ~ContainsIgnoringCase(input.visionResponse.bBoxes[2].label,
                           input.objectType)
  /\ indexOf(input.visionResponse.bBoxes[1].label, input.objectType) < 0

(***************************************************************************)
(* Properties of createVisionResponse (SpecParse).                         *)
(***************************************************************************)
KeysOf(text) == {text.members[k].k : k \in 1..Len(text.members)}

\* the value a JSON object text gives to key k: that of the last member
ValueOf(text, k) ==
  LET last == CHOOSE i \in 1..Len(text.members) :
                 /\ text.members[i].k = k
                 /\ \A j \in (i + 1)..Len(text.members) : text.members[j].k # k
  IN text.members[last].v

\* a map from label to a sequence of records
IsPayload(text) ==
  /\ text.t = "obj"
  /\ \A k \in KeysOf(text) :
        /\ ValueOf(text, k).t = "arr"
        /\ \A j \in 1..Len(ValueOf(text, k).items) :
              ValueOf(text, k).items[j].t = "rec"

LacksField(text) ==
  /\ text.t = "obj"
  /\ \E k \in KeysOf(text) :
        /\ ValueOf(text, k).t = "arr"
        /\ \E j \in 1..Len(ValueOf(text, k).items) :
              /\ ValueOf(text, k).items[j].t = "rec"
              /\ DOMAIN ValueOf(text, k).items[j].fields # FieldSet

RECURSIVE TotalRecords(_, _)
TotalRecords(text, keys) ==
  IF keys = {} THEN 0
  ELSE LET k == CHOOSE k \in keys : TRUE
       IN Len(ValueOf(text, k).items) + TotalRecords(text, keys \ {k})

BoxesLabelled(boxes, k) ==
  LET Has(b) == b.label = k IN SelectSeq(boxes, Has)

\* C3: for a valid payload the response has as many boxes as the payload has
\* records over all its keys, and each key labels as many boxes as it has
\* records.
C3_BoxPerRecord ==
  (input.fn = "createVisionResponse" /\ output.done
     /\ IsPayload(input.jsonAPIResponse)) =>
     LET text == input.jsonAPIResponse IN
     /\ output.result.ok
     /\ Len(output.result.value.bBoxes) = TotalRecords(text, KeysOf(text))
     /\ \A b \in 1..Len(output.result.value.bBoxes) :
           output.result.value.bBoxes[b].label \in KeysOf(text)
     /\ \A k \in KeysOf(text) :
           Len(BoxesLabelled(output.result.value.bBoxes, k))
             = Len(ValueOf(text, k).items)

C3_Witness ==
  /\ input.fn = "createVisionResponse"
  /\ output.done
  /\ IsPayload(input.jsonAPIResponse)
  /\ Cardinality(KeysOf(input.jsonAPIResponse)) = 2
  /\ output.result.ok
  /\ Len(output.result.value.bBoxes) = 2
  /\ output.result.value.bBoxes[1].label # output.result.value.bBoxes[2].label

HasUndefinedField(bBox) == \E f \in FieldSet : bBox[f] = Undefined

\* C7 as stated: createVisionResponse fails when the input is not valid JSON
\* and when a record lacks one of x, y, w, h, score, and never returns a box
\* built from a record that lacks a field.
C7_FailsOnMissingField ==
  (input.fn = "createVisionResponse" /\ output.done) =>
     /\ (input.jsonAPIResponse.t = "invalid" \/ LacksField(input.jsonAPIResponse))
          => ~output.result.ok
     /\ output.result.ok =>
          \A b \in 1..Len(output.result.value.bBoxes) :
             ~HasUndefinedField(output.result.value.bBoxes[b])

\* C7 amended: createVisionResponse fails with a SyntaxError when the input is
\* not valid JSON; a record that lacks a field does not make it fail: the box
\* built from the record has the record's fields verbatim and undefined for
\* each field the record lacks.
C7_MissingFieldIsUndefined ==
  (input.fn = "createVisionResponse" /\ output.done) =>
     LET text == input.jsonAPIResponse IN
     /\ text.t = "invalid" =>
          ~output.result.ok /\ output.result.error = "SyntaxError"
     /\ IsPayload(text) =>
          /\ output.result.ok
          /\ \A k \in KeysOf(text) :
                LET boxes == BoxesLabelled(output.result.value.bBoxes, k)
                    items == ValueOf(text, k).items
                IN /\ Len(boxes) = Len(items)
                   /\ \A j \in 1..Len(items) : \A f \in FieldSet :
                         boxes[j][f] = IF f \in DOMAIN items[j].fields
                                       THEN items[j].fields[f]
                                       ELSE Undefined

C7_Witness ==
  /\ input.fn = "createVisionResponse"
  /\ output.done
  /\ LacksField(input.jsonAPIResponse)
  /\ output.result.ok
  /\ \E b \in 1..Len(output.result.value.bBoxes) :
        HasUndefinedField(output.result.value.bBoxes[b])

(***************************************************************************)
(* Promises.  A promise is pending, fulfilled with a value or rejected     *)
(* with a reason; resolve and reject act on a pending promise only.        *)
(***************************************************************************)
Pending == [state |-> "pending"]
Fulfilled(v) == [state |-> "fulfilled", value |-> v]
Rejected(r) == [state |-> "rejected", reason |-> r]

settle(promise, settled) == IF promise.state = "pending" THEN settled ELSE promise

(***************************************************************************)
(* recognizeObjectAPIAsync                                                 *)
(***************************************************************************)
GS == <<"g", "s", ":", "/", "/">>
OBJECT_INFERENCE_API_URL == <<"U">>
QUERY == <<"?", "g", "c", "s", "_", "u", "r", "i", "=">>

NoRequest == [issued |-> FALSE]
Request(apiUrl) == [issued |-> TRUE, uri |-> apiUrl, answered |-> FALSE]

\* mutant: the check of the gs:// prefix is missing
recognizeObjectAPIAsyncNoPrefixCheck(gcsURI) ==
  IF gcsURI = <<>>
  THEN [api |-> Rejected([e |-> "No gcURI found in sensorMessage"]),
        request |-> NoRequest]
  ELSE [api |-> Pending,
        request |-> Request(OBJECT_INFERENCE_API_URL \o QUERY
                              \o encodeURIComponent(gcsURI))]

\* the executor of the promise: the promise it leaves and the request it issues
recognizeObjectAPIAsync(gcsURI) ==
  IF gcsURI = <<>>
  THEN [api |-> Rejected([e |-> "No gcURI found in sensorMessage"]),
        request |-> NoRequest]
  ELSE IF ~startsWith(gcsURI, GS)
  THEN [api |-> Rejected([e |-> "gcsURI must start with gs://"]),
        request |-> NoRequest]
  ELSE [api |-> Pending,
        request |-> Request(OBJECT_INFERENCE_API_URL \o QUERY
                              \o encodeURIComponent(gcsURI))]

NoError == "null"

\* mutant: the status code is not looked at
requestCallbackAnyStatus(err, statusCode, body) ==
  IF err # NoError
  THEN [settled |-> Rejected([e |-> "transport", cause |-> err]),
        logged |-> [e |-> "apiError", cause |-> err]]
  ELSE [settled |-> Fulfilled(body), logged |-> [e |-> "timing"]]

\* the callback handed to request(): how it settles the promise, what it logs
requestCallback(err, statusCode, body) ==
  IF err # NoError
  THEN [settled |-> Rejected([e |-> "transport", cause |-> err]),
        logged |-> [e |-> "apiError", cause |-> err]]
  ELSE IF statusCode # 200
  THEN [settled |-> Rejected([e |-> "Received from API", statusCode |-> statusCode]),
        logged |-> [e |-> "timing"]]
  ELSE [settled |-> Fulfilled(body), logged |-> [e |-> "timing"]]

(***************************************************************************)
(* recognizeObjects, processOneFile, processAllFiles: the part each runs   *)
(* synchronously when called.  st is [log, calls, jobs].                   *)
(***************************************************************************)
Job(kind, id) == [kind |-> kind, id |-> id]

recognizeObjects(gcsPath, caller, st) ==
  LET r == recognizeObjectAPIAsync(gcsPath)
      id == Len(st.calls) + 1
      call == [caller |-> caller, gcsPath |-> gcsPath,
               api |-> r.api, request |-> r.request,
               settles |-> IF r.api.state = "pending" THEN 0 ELSE 1,
               chained |-> Pending, result |-> Pending,
               one |-> IF caller = "processOneFile" THEN "await" ELSE "none"]
  IN [log |-> st.log \o <<[e |-> "recognizeObjects", id |-> id]>>
                \o (IF r.request.issued THEN <<[e |-> "request", id |-> id]>>
                    ELSE <<>>),
      calls |-> Append(st.calls, call),
      jobs |-> IF r.api.state = "pending" THEN st.jobs
               ELSE Append(st.jobs, Job("then", id))]

processOneFile(bucketName, fileName, st) ==
  recognizeObjects(GS \o bucketName \o <<"/">> \o fileName, "processOneFile",
                   [st EXCEPT !.log = Append(@, [e |-> "processOneFile",
                                                 fileName |-> fileName])])

\* mutant: the first two objects are processed
shouldProcessFirstTwo(i) == i < 3

\* mutant: no object is processed
shouldProcessNone(i) == i < 1

\* the guard `i < 2` of the forEach callback
shouldProcess(i) == i < 2

RECURSIVE forEachFile(_, _, _, _, _)
forEachFile(bucketName, fileList, k, i, st) ==
  IF k > Len(fileList) THEN [i |-> i, st |-> st]
  ELSE forEachFile(bucketName, fileList, k + 1, i + 1,
         IF shouldProcess(i)
         THEN processOneFile(bucketName, fileList[k],
                [st EXCEPT !.log = Append(@, [e |-> "processAllFiles#",
                                              i |-> i])])
         ELSE st)

\* the part of processAllFiles after `await getFiles()`
processAllFiles(bucketName, fileList, st) ==
  LET r == forEachFile(bucketName, fileList, 1, 1, st)
  IN [r.st EXCEPT !.log = Append(@, [e |-> "summary", total |-> r.i,
                                     listed |-> Len(fileList)])]

\* mutant: the labels are reported last to first
reportLabelsReversed(id, labels, visionResponse) ==
  [k \in 1..Len(labels) |->
     [e |-> "search", id |-> id, label |-> labels[Len(labels) + 1 - k],
      found |-> findObject(labels[Len(labels) + 1 - k], visionResponse)]]

\* the loop `for (let label of ALL_OBJECT_LABELS)` of processOneFile
reportLabels(id, labels, visionResponse) ==
  [k \in 1..Len(labels) |->
     [e |-> "search", id |-> id, label |-> labels[k],
      found |-> findObject(labels[k], visionResponse)]]

\* mutant: the handler passes the error on
catchHandlerRethrows(error) == Throw(error)

\* the handler of .catch in recognizeObjects
catchHandler(error) == Return(VisionResponse)

(***************************************************************************)
(* The program.                                                            *)
(***************************************************************************)
TransportErrors == {"ECONNREFUSED", "ETIMEDOUT"}
StatusCodes == {200, 404, 500}
HttpBodies == Texts(PayloadKeys, HttpItems, MaxBodyKeys, MaxBodyRecords)
ErrorBodies == {JInvalid, JObj(<<>>), JObj(<<[k |-> <<"a">>, v |-> JArr(<<JRec(FieldSet)>>)]>>)}

\* what the host hands to the callback of request(): an error and nothing
\* else, or a response with its status code and its body
Exchanges ==
  {[err |-> c] : c \in TransportErrors}
    \cup {[err |-> NoError, statusCode |-> 200, body |-> b] : b \in HttpBodies}
    \cup {[err |-> NoError, statusCode |-> c, body |-> b] :
            c \in StatusCodes \ {200}, b \in ErrorBodies}
Listings == SeqsUpTo(FileNames, MaxFiles)
EnvStrings == SeqsUpTo(EnvChars, MaxEnvLen)
DirectURIs(maxLen) == SeqsUpTo(URIChars, maxLen)

NoInput ==
  /\ input = [fn |-> "none"]
  /\ output = [done |-> FALSE]

\* the module has been loaded up to line 33
Init ==
  /\ ALL_OBJECT_LABELS \in {split(env, " ") : env \in EnvStrings}
  /\ pc = "start"
  /\ files = <<>>
  /\ log = <<>>
  /\ calls = <<>>
  /\ jobs = <<>>
  /\ NoInput

\* lines 187-191: processAllFiles runs up to its await
Main ==
  /\ pc = "start"
  /\ pc' = "getFiles"
  /\ log' = log \o <<[e |-> "started"], [e |-> "inProgress"]>>
  /\ UNCHANGED <<ALL_OBJECT_LABELS, files, calls, jobs, input, output>>

\* the listing arrives: the rest of processAllFiles
GetFilesResolve ==
  /\ pc = "getFiles"
  /\ jobs = <<>>
  /\ \E listing \in Listings :
        LET st == processAllFiles(CLOUD_BUCKET, listing,
                                  [log |-> log, calls |-> calls, jobs |-> jobs])
        IN /\ files' = listing
           /\ log' = st.log
           /\ calls' = st.calls
           /\ jobs' = st.jobs
  /\ pc' = "scanned"
  /\ UNCHANGED <<ALL_OBJECT_LABELS, input, output>>

\* the listing fails: processAllFiles rejects, nothing handles it
GetFilesReject ==
  /\ pc = "getFiles"
  /\ jobs = <<>>
  /\ pc' = "failed"
  /\ UNCHANGED <<ALL_OBJECT_LABELS, files, log, calls, jobs, input, output>>

\* the host answers a request: lines 167-179
RequestCallback ==
  /\ jobs = <<>>
  /\ \E id \in 1..Len(calls) :
        /\ calls[id].request.issued
        /\ ~calls[id].request.answered
        /\ \E x \in Exchanges :
              LET r == IF x.err # NoError
                       THEN requestCallback(x.err, Undefined, Undefined)
                       ELSE requestCallback(x.err, x.statusCode, x.body)
              IN
              /\ calls' = [calls EXCEPT ![id].api = settle(@, r.settled),
                                        ![id].settles = @ + 1,
                                        ![id].request.answered = TRUE]
              /\ log' = log \o <<[e |-> "response", id |-> id, exchange |-> x],
                                r.logged>>
              /\ jobs' = Append(jobs, Job("then", id))
  /\ UNCHANGED <<ALL_OBJECT_LABELS, pc, files, input, output>>

\* reaction of .then((response) => ...) to the promise of the API call
ThenReaction ==
  /\ jobs # <<>>
  /\ Head(jobs).kind = "then"
  /\ LET id == Head(jobs).id IN
     IF calls[id].api.state = "fulfilled"
     THEN /\ jobs' = Append(Tail(jobs), Job("inner", id))
          /\ UNCHANGED calls
     ELSE /\ calls' = [calls EXCEPT ![id].chained = calls[id].api]
          /\ jobs' = Append(Tail(jobs), Job("catch", id))
  /\ UNCHANGED <<ALL_OBJECT_LABELS, pc, files, log, input, output>>

\* reaction of Promise.resolve().then(() => createVisionResponse(response))
InnerReaction ==
  /\ jobs # <<>>
  /\ Head(jobs).kind = "inner"
  /\ LET id == Head(jobs).id
         r == createVisionResponse(calls[id].api.value)
     IN /\ calls' = [calls EXCEPT ![id].chained =
                        IF r.ok THEN Fulfilled(r.value)
                        ELSE Rejected([e |-> r.error])]
        /\ jobs' = Append(Tail(jobs), Job("catch", id))
  /\ UNCHANGED <<ALL_OBJECT_LABELS, pc, files, log, input, output>>

\* reaction of .catch((error) => ...)
CatchReaction ==
  /\ jobs # <<>>
  /\ Head(jobs).kind = "catch"
  /\ LET id == Head(jobs).id IN
     /\ IF calls[id].chained.state = "rejected"
        THEN LET r == catchHandler(calls[id].chained.reason) IN
             /\ calls' = [calls EXCEPT ![id].result =
                             IF r.ok THEN Fulfilled(r.value)
                             ELSE Rejected(r.error)]
             /\ log' = Append(log, [e |-> "recognizeError", id |-> id])
        ELSE /\ calls' = [calls EXCEPT ![id].result = calls[id].chained]
             /\ UNCHANGED log
     /\ jobs' = IF calls[id].caller = "processOneFile"
                THEN Append(Tail(jobs), Job("resume", id))
                ELSE Tail(jobs)
  /\ UNCHANGED <<ALL_OBJECT_LABELS, pc, files, input, output>>

\* processOneFile after `await recognizeObjects(...)`: lines 64-72
Resume ==
  /\ jobs # <<>>
  /\ Head(jobs).kind = "resume"
  /\ LET id == Head(jobs).id IN
     IF calls[id].result.state = "fulfilled"
     THEN /\ log' = log \o <<[e |-> "visionResponse", id |-> id,
                              boxes |-> Len(calls[id].result.value.bBoxes)]>>
                        \o reportLabels(id, ALL_OBJECT_LABELS,
                                        calls[id].result.value)
          /\ calls' = [calls EXCEPT ![id].one = "done"]
     ELSE /\ calls' = [calls EXCEPT ![id].one = "threw"]
          /\ UNCHANGED log
  /\ jobs' = Tail(jobs)
  /\ UNCHANGED <<ALL_OBJECT_LABELS, pc, files, input, output>>

Next ==
  \/ Main
  \/ GetFilesResolve
  \/ GetFilesReject
  \/ RequestCallback
  \/ ThenReaction
  \/ InnerReaction
  \/ CatchReaction
  \/ Resume

Spec == Init /\ [][Next]_vars

\* recognizeObjects called on its own, with any URI
InitAPI ==
  /\ ALL_OBJECT_LABELS = <<>>
  /\ pc = "direct"
  /\ files = <<>>
  /\ log = <<>>
  /\ calls = <<>>
  /\ jobs = <<>>
  /\ NoInput

CallRecognizeObjects ==
  /\ pc = "direct"
  /\ calls = <<>>
  /\ \E gcsPath \in DirectURIs(MaxURILen) :
        LET st == recognizeObjects(gcsPath, "direct",
                                   [log |-> log, calls |-> calls, jobs |-> jobs])
        IN /\ log' = st.log
           /\ calls' = st.calls
           /\ jobs' = st.jobs
  /\ UNCHANGED <<ALL_OBJECT_LABELS, pc, files, input, output>>

NextAPI ==
  \/ CallRecognizeObjects
  \/ RequestCallback
  \/ ThenReaction
  \/ InnerReaction
  \/ CatchReaction

SpecAPI == InitAPI /\ [][NextAPI]_vars

(***************************************************************************)
(* Properties of the program (Spec) and of recognizeObjects (SpecAPI).     *)
(***************************************************************************)
EventsOf(kind, id) ==
  LET Is(ev) == ev.e = kind /\ ev.id = id IN SelectSeq(log, Is)

Positions(kind) == {k \in 1..Len(log) : log[k].e = kind}

HasGsPrefix(uri) ==
  /\ Len(uri) >= 5
  /\ uri[1] = "g" /\ uri[2] = "s" /\ uri[3] = ":" /\ uri[4] = "/" /\ uri[5] = "/"

\* the exchange the host delivered for call id
ExchangeOf(id) == EventsOf("response", id)[1].exchange

\* a body createVisionResponse cannot turn into a response
Unparsable(text) == text.t = "invalid" \/ (text.t = "obj" /\ ~IsPayload(text))

InferenceFailed(id) ==
  \/ calls[id].api.state = "rejected"
  \/ calls[id].api.state = "fulfilled" /\ Unparsable(calls[id].api.value)

\* C1: when the inference step of processOneFile fails (URI rejected,
\* transport error, status other than 200, body that does not parse),
\* recognizeObjects never rejects and resolves with a response of zero boxes,
\* and processOneFile does not throw and reports false for every label.
C1_FailureGivesEmptyResponse ==
  \A id \in 1..Len(calls) :
     (calls[id].caller = "processOneFile" /\ InferenceFailed(id)) =>
        /\ calls[id].result.state # "rejected"
        /\ calls[id].result.state = "fulfilled" =>
              calls[id].result.value.bBoxes = <<>>
        /\ calls[id].one # "threw"
        /\ calls[id].one = "done" =>
              /\ calls[id].result.state = "fulfilled"
              /\ Len(EventsOf("search", id)) = Len(ALL_OBJECT_LABELS)
              /\ \A k \in 1..Len(ALL_OBJECT_LABELS) :
                    /\ EventsOf("search", id)[k].label = ALL_OBJECT_LABELS[k]
                    /\ ~EventsOf("search", id)[k].found

C1_Witness ==
  \E id \in 1..Len(calls) :
     /\ calls[id].caller = "processOneFile"
     /\ calls[id].api.state = "rejected"
     /\ calls[id].api.reason.e = "Received from API"
     /\ calls[id].api.reason.statusCode = 500
     /\ calls[id].one = "done"
     /\ Len(EventsOf("search", id)) = 2

\* C4: a call of recognizeObjectAPIAsync with a URI that is empty or does not
\* begin with gs:// fails with an invalid-input error and issues no request.
C4_InvalidURIIssuesNoRequest ==
  \A id \in 1..Len(calls) :
     ~HasGsPrefix(calls[id].gcsPath) =>
        /\ calls[id].api.state = "rejected"
        /\ calls[id].api.reason.e \in {"No gcURI found in sensorMessage",
                                        "gcsURI must start with gs://"}
        /\ ~calls[id].request.issued
        /\ EventsOf("request", id) = <<>>
        /\ EventsOf("response", id) = <<>>

C4_Witness ==
  \E id \in 1..Len(calls) :
     /\ Len(calls[id].gcsPath) >= 5
     /\ SubSeq(calls[id].gcsPath, 1, 4) = <<"g", "s", ":", "/">>
     /\ ~HasGsPrefix(calls[id].gcsPath)
     /\ calls[id].api.state = "rejected"
     /\ calls[id].result.state = "fulfilled"

\* what the labels of a payload say about a target label
PayloadHas(text, label) ==
  \E k \in KeysOf(text) :
     /\ ValueOf(text, k).items # <<>>
     /\ ContainsIgnoringCase(k, label)

AnsweredWithPayload(id) ==
  /\ EventsOf("response", id) # <<>>
  /\ ExchangeOf(id).err = NoError
  /\ ExchangeOf(id).statusCode = 200
  /\ IsPayload(ExchangeOf(id).body)

\* C5: when the endpoint answers 200 with a valid payload, processOneFile
\* reports one boolean per configured label, in configured order, the boolean
\* of a label telling whether the payload holds a detection matching it; no
\* label is reported before the answer has been handled.
C5_OneReportPerLabel ==
  \A id \in 1..Len(calls) :
     /\ \A k \in Positions("search") : log[k].id = id =>
           \E r \in Positions("response") : r < k /\ log[r].id = id
     /\ calls[id].one # "done" => EventsOf("search", id) = <<>>
     /\ (calls[id].one = "done" /\ AnsweredWithPayload(id)) =>
           /\ Len(EventsOf("search", id)) = Len(ALL_OBJECT_LABELS)
           /\ \A k \in 1..Len(ALL_OBJECT_LABELS) :
                 /\ EventsOf("search", id)[k].label = ALL_OBJECT_LABELS[k]
                 /\ EventsOf("search", id)[k].found
                      = PayloadHas(ExchangeOf(id).body, ALL_OBJECT_LABELS[k])

C5_Witness ==
  \E id \in 1..Len(calls) :
     /\ calls[id].one = "done"
     /\ AnsweredWithPayload(id)
     /\ Len(EventsOf("search", id)) = 2
     /\ EventsOf("search", id)[1].found
     /\ ~EventsOf("search", id)[2].found

\* C6: for a valid URI recognizeObjectAPIAsync settles exactly once: it
\* resolves with the body as received iff there is no transport error and the
\* status is 200, fails with the transport error when there is one, and fails
\* with an error carrying the status code when the status is not 200.
C6_SettlesOnceByExchange ==
  \A id \in 1..Len(calls) :
     HasGsPrefix(calls[id].gcsPath) =>
        /\ calls[id].request.issued
        /\ Len(EventsOf("response", id)) <= 1
        /\ ~calls[id].request.answered =>
              calls[id].settles = 0 /\ calls[id].api.state = "pending"
        /\ calls[id].request.answered =>
              LET x == ExchangeOf(id) IN
              /\ calls[id].settles = 1
              /\ calls[id].api.state = "fulfilled"
                   <=> (x.err = NoError /\ x.statusCode = 200)
              /\ calls[id].api.state = "fulfilled" =>
                    calls[id].api.value = x.body
              /\ x.err # NoError =>
                    /\ calls[id].api.state = "rejected"
                    /\ calls[id].api.reason.e = "transport"
                    /\ calls[id].api.reason.cause = x.err
              /\ (x.err = NoError /\ x.statusCode # 200) =>
                    /\ calls[id].api.state = "rejected"
                    /\ calls[id].api.reason.e = "Received from API"
                    /\ calls[id].api.reason.statusCode = x.statusCode

C6_Witness ==
  \E id \in 1..Len(calls) :
     /\ HasGsPrefix(calls[id].gcsPath)
     /\ calls[id].request.answered
     /\ ExchangeOf(id).err = NoError
     /\ ExchangeOf(id).statusCode = 404
     /\ calls[id].api.state = "rejected"
     /\ calls[id].result.state = "fulfilled"

\* C8: processAllFiles starts processOneFile for the first object of the
\* listing and for no other: none for an empty listing, exactly one otherwise,
\* so at most one request is in flight.
C8_OnlyFirstObjectProcessed ==
  /\ Cardinality({id \in 1..Len(calls) :
                    calls[id].request.issued /\ ~calls[id].request.answered}) <= 1
  /\ pc = "scanned" =>
        /\ Len(calls) = (IF files = <<>> THEN 0 ELSE 1)
        /\ Cardinality(Positions("processOneFile")) = Len(calls)
        /\ Cardinality(Positions("request")) = Len(calls)
        /\ \A k \in Positions("processOneFile") : log[k].fileName = files[1]
        /\ \A id \in 1..Len(calls) :
              calls[id].gcsPath = GS \o CLOUD_BUCKET \o <<"/">> \o files[1]

C8_Witness ==
  /\ pc = "scanned"
  /\ Len(files) = 2
  /\ files[1] # files[2]
  /\ Len(calls) = 1
  /\ calls[1].one = "done"

AfterScanEvents == {"response", "apiError", "timing", "recognizeError",
                    "visionResponse", "search"}

\* C9: with a non-empty listing the summary is reported after the request of
\* the processed file has been issued, and before its response is handled and
\* before any result of the file is reported.
C9_SummaryBeforeResponse ==
  /\ (pc = "scanned" /\ files # <<>>) =>
        \E sm \in Positions("summary") :
           /\ \E k \in Positions("request") : k < sm
           /\ \A k \in 1..Len(log) : log[k].e \in AfterScanEvents => sm < k
  /\ \A k \in 1..Len(log) : log[k].e \in AfterScanEvents =>
        \E sm \in Positions("summary") : sm < k

C9_Witness ==
  /\ pc = "scanned"
  /\ files # <<>>
  /\ \E sm \in Positions("summary"), rq \in Positions("request"),
        rs \in Positions("response"), sr \in Positions("search") :
        rq < sm /\ sm < rs /\ rs < sr

\* C10 as stated: the total of the summary is the number of objects listed.
C10_TotalIsListingSize ==
  \A k \in Positions("summary") : log[k].total = Len(files)

====
